---- MODULE Spec2Model ----
(***************************************************************************)
(* A model of the PDF crawler (src/crawler.py) and of its controller       *)
(* (src/app.py).                                                           *)
(*                                                                         *)
(* Strings are sequences of tokens.  A token is a piece of text that the   *)
(* code never looks inside of, except through the tables ContainsPdf,      *)
(* EndsWithDot and Lower below: "https://" is one token, "example.com" is  *)
(* one token, "/" is one token, ".pdf" is one token.  Every string         *)
(* operation of the code (strip, startswith, endswith, replace, urlparse,  *)
(* urljoin, basename, the regular expressions) is computed on the tokens.  *)
(***************************************************************************)
EXTENDS Naturals, Integers, Sequences, FiniteSets, TLC

(***************************************************************************)
(* Bounds of the model.                                                    *)
(***************************************************************************)
\* max_depth values a start request may carry: 0..MaxDepth
MaxDepth == 2
\* worker threads of the pool (the constructor's max_workers)
MaxWorkers == 2
\* start requests served in the controller specification
MaxStarts == 2

(***************************************************************************)
(* Sequence helpers.                                                       *)
(***************************************************************************)
Last(s) == s[Len(s)]

Range(s) == { s[i] : i \in 1..Len(s) }

Take(s, n) == SubSeq(s, 1, IF n < Len(s) THEN n ELSE Len(s))

Drop(s, n) == SubSeq(s, n + 1, Len(s))

\* s.startswith(p), s.endswith(p), p in s
StartsWith(s, p) == Len(p) <= Len(s) /\ SubSeq(s, 1, Len(p)) = p

EndsWith(s, p) == Len(p) <= Len(s) /\ SubSeq(s, Len(s) - Len(p) + 1, Len(s)) = p

Contains(s, p) == \E i \in 0..(Len(s) - Len(p)) : SubSeq(s, i + 1, i + Len(p)) = p

\* the elements of s that are not in drop, in order
RECURSIVE FilterOut(_, _)
FilterOut(s, drop) ==
  IF s = <<>> THEN <<>>
  ELSE IF Head(s) \in drop THEN FilterOut(Tail(s), drop)
       ELSE <<Head(s)>> \o FilterOut(Tail(s), drop)

\* the greatest index i with s[i] \in set, 0 when there is none
LastIndexIn(s, set) ==
  LET I == { i \in 1..Len(s) : s[i] \in set }
  IN  IF I = {} THEN 0 ELSE CHOOSE i \in I : \A j \in I : j <= i

\* the least index i with s[i] \in set, Len(s)+1 when there is none
FirstIndexIn(s, set) ==
  LET I == { i \in 1..Len(s) : s[i] \in set }
  IN  IF I = {} THEN Len(s) + 1 ELSE CHOOSE i \in I : \A j \in I : i <= j

(***************************************************************************)
(* The tokens.                                                             *)
(***************************************************************************)
Blank == " "

HttpPrefixes == {"http://", "https://"}

\* tokens "<scheme>://" and "<scheme>:" that urlparse takes as a scheme
SchemeTokens == {"http://", "https://", "ftp://", "mailto:", "tel:"}

SchemeOf(tok) ==
  CASE tok = "http://"  -> "http"
    [] tok = "https://" -> "https"
    [] tok = "ftp://"   -> "ftp"
    [] tok = "mailto:"  -> "mailto"
    [] tok = "tel:"     -> "tel"
    [] OTHER            -> ""

\* host labels; a label written with its dot is followed by another label
HostTokens == {"www.", "blog.", "example.com", "other.com", "site.test", "dup.test",
               "fail.test", "cov.test"}

\* a netloc with a "[" and no "]": urlparse raises ValueError on it
BadHostTokens == {"[bad"}

InvalidIPv6 == "Invalid IPv6 URL"

EndsWithDot(tok) == tok \in {"www.", "blog."}

\* extensions named by the first skip pattern of is_valid_url
AssetExtTokens == {".png", ".PNG", ".css", ".js", ".zip"}

ExtTokens == AssetExtTokens \cup {".pdf", ".PDF", ".html"}

\* str.lower() of a token
Lower(tok) ==
  CASE tok = ".PDF" -> ".pdf"
    [] tok = ".PNG" -> ".png"
    [] OTHER        -> tok

\* 'pdf' in tok.lower()
ContainsPdf(tok) == Lower(tok) \in {".pdf", "pdf", "?format=pdf"}

FragmentTokens == {"#top"}

QueryTokens == {"?v=1", "?format=pdf"}

(***************************************************************************)
(* urllib.parse and os.path on token strings.                              *)
(***************************************************************************)
\* urlparse(url) raises ValueError
urlparse_raises(url) == \E i \in 1..Len(url) : url[i] \in BadHostTokens

\* urlparse(url): the scheme, the netloc and the path
urlparse(url) ==
  IF url # <<>> /\ Head(url) \in {"http://", "https://", "ftp://"}
  THEN LET rest == Tail(url)
           n    == FirstIndexIn(rest, {"/"} \cup QueryTokens \cup FragmentTokens) - 1
           tl   == Drop(rest, n)
           m    == FirstIndexIn(tl, QueryTokens \cup FragmentTokens) - 1
       IN  [scheme |-> SchemeOf(Head(url)), netloc |-> Take(rest, n), path |-> Take(tl, m)]
  ELSE IF url # <<>> /\ Head(url) \in {"mailto:", "tel:"}
  THEN [scheme |-> SchemeOf(Head(url)), netloc |-> <<>>,
        path |-> Take(Tail(url), FirstIndexIn(Tail(url), QueryTokens \cup FragmentTokens) - 1)]
  ELSE [scheme |-> "", netloc |-> <<>>,
        path |-> Take(url, FirstIndexIn(url, QueryTokens \cup FragmentTokens) - 1)]

\* os.path.basename(path): what follows the last "/"
basename(path) == Drop(path, LastIndexIn(path, {"/"}))

\* urljoin(base, href)
urljoin(base, href) ==
  LET b      == urlparse(base)
      origin == <<Head(base)>> \o b.netloc
      noFrag == Take(base, FirstIndexIn(base, FragmentTokens) - 1)
  IN  IF href = <<>> THEN base
      ELSE IF Head(href) \in SchemeTokens THEN href
      ELSE IF Head(href) = "/" THEN origin \o href
      ELSE IF Head(href) \in FragmentTokens THEN noFrag \o href
      ELSE origin \o Take(b.path, LastIndexIn(b.path, {"/"}))
                  \o (IF b.path = <<>> THEN <<"/">> ELSE <<>>) \o href

(***************************************************************************)
(* The pure functions of PDFCrawler.                                       *)
(***************************************************************************)
\* str.strip(): leading and trailing blanks removed
RECURSIVE lstrip(_)
lstrip(s) == IF s # <<>> /\ Head(s) = Blank THEN lstrip(Tail(s)) ELSE s

RECURSIVE rstrip(_)
rstrip(s) == IF s # <<>> /\ Last(s) = Blank THEN rstrip(SubSeq(s, 1, Len(s) - 1)) ELSE s

strip(s) == rstrip(lstrip(s))

\* a normalize_url that prepends the scheme in every case
normalize_url_always_prepends(url) == <<"https://">> \o strip(url)

\* PDFCrawler.normalize_url
normalize_url(url) ==
  LET u == strip(url)
  IN  IF ~(u # <<>> /\ Head(u) \in HttpPrefixes) THEN <<"https://">> \o u ELSE u

\* netloc.lower().replace('www.', '')
strip_www(netloc) == FilterOut(netloc, {"www."})

\* url_domain.endswith('.' + base)
is_subdomain(url_domain, base) ==
  /\ Len(url_domain) > Len(base)
  /\ EndsWith(url_domain, base)
  /\ EndsWithDot(url_domain[Len(url_domain) - Len(base)])

\* a skip pattern that names the pdf extension too
matches_skip_pattern_or_pdf(url) ==
  \/ url # <<>> /\ Lower(Last(url)) \in { Lower(t) : t \in AssetExtTokens } \cup {".pdf"}
  \/ \E i \in 1..Len(url) : url[i] \in FragmentTokens
  \/ \E i \in 1..Len(url) : url[i] = "mailto:"
  \/ \E i \in 1..Len(url) : url[i] = "tel:"

\* re.search(pattern, url, re.IGNORECASE) for one of the skip_patterns
matches_skip_pattern(url) ==
  \/ url # <<>> /\ Lower(Last(url)) \in { Lower(t) : t \in AssetExtTokens }
  \/ \E i \in 1..Len(url) : url[i] \in FragmentTokens
  \/ \E i \in 1..Len(url) : url[i] = "mailto:"
  \/ \E i \in 1..Len(url) : url[i] = "tel:"

\* PDFCrawler.is_valid_url
is_valid_url(url, base_domain) ==
  LET parsed     == urlparse(url)
      url_domain == strip_www(parsed.netloc)
      base       == strip_www(base_domain)
  IN  IF urlparse_raises(url) THEN FALSE
      ELSE IF parsed.scheme \notin {"http", "https"} THEN FALSE
      ELSE IF url_domain # base
           THEN (IF is_subdomain(url_domain, base) THEN TRUE ELSE FALSE)
           ELSE IF matches_skip_pattern(url) THEN FALSE
                ELSE TRUE

\* url.lower().endswith('.pdf')
ends_with_pdf(url) == url # <<>> /\ Lower(Last(url)) = ".pdf"

\* pattern in url, for '/file/', '/download/', '/api/v1/file/'
has_file_pattern(url) ==
  \E i \in 1..(Len(url) - 2) :
     url[i] = "/" /\ url[i + 1] \in {"file", "download"} /\ url[i + 2] = "/"

\* PDFCrawler.is_pdf_url
is_pdf_url(url) ==
  IF ends_with_pdf(url) THEN TRUE
  ELSE IF \E i \in 1..Len(url) : ContainsPdf(url[i])
       THEN (IF has_file_pattern(url) THEN TRUE ELSE FALSE)
       ELSE FALSE

\* the filename of a record: basename of the path, '.pdf' added when the
\* name does not end with it (str.endswith is case sensitive)
pdf_filename(url) ==
  LET filename == basename(urlparse(url).path)
  IN  IF ~(filename # <<>> /\ Last(filename) = ".pdf") THEN filename \o <<".pdf">>
      ELSE filename

(***************************************************************************)
(* The web the crawler talks to: what a GET or a HEAD of a URL answers.    *)
(* kind "html": 200, a page with anchors and embeds; "pdf": 200, a PDF     *)
(* body; "http_error": a non-2xx answer (raise_for_status raises, a HEAD   *)
(* returns normally); "net_error": the request itself raises;              *)
(* "truncated": 200, but reading the body raises midway.                   *)
(***************************************************************************)
Page(anchors, embeds) ==
  [kind |-> "html", ctype |-> "text/html", anchors |-> anchors, embeds |-> embeds]

Resource(kind, ctype) == [kind |-> kind, ctype |-> ctype, anchors |-> <<>>, embeds |-> <<>>]

Web(url) ==
  CASE \* example.com: the end-to-end scenario of the specification
       url = <<"https://", "example.com">> ->
         Page(<< <<"/", "report", ".pdf">>, <<"/", "page2">> >>, <<>>)
    [] url = <<"https://", "example.com", "/", "page2">> ->
         Page(<< <<"/", "other", ".pdf">> >>, <<>>)
    [] url = <<"https://", "example.com", "/", "report", ".pdf">> ->
         Resource("pdf", "application/pdf")
    [] url = <<"https://", "example.com", "/", "other", ".pdf">> ->
         Resource("pdf", "application/pdf")
       \* site.test: the two pages of one batch refer to the same PDF
    [] url = <<"https://", "site.test">> ->
         Page(<< <<"/", "a">>, <<"/", "b">>, <<"#top">>, <<"mailto:", "x">>,
                 <<"/", "logo", ".png">>, <<"https://", "other.com", "/", "x">> >>, <<>>)
    [] url = <<"https://", "site.test", "/", "a">> ->
         Page(<< <<"/", "s", ".pdf">>, <<"https://", "site.test">> >>, <<>>)
    [] url = <<"https://", "site.test", "/", "b">> ->
         Page(<<>>, << <<"/", "s", ".pdf">> >>)
       \* dup.test: the seed links to one page twice, and to a page that is gone
    [] url = <<"https://", "dup.test">> ->
         Page(<< <<"/", "c">>, <<"/", "c">>, <<"/", "gone">> >>, <<>>)
    [] url = <<"https://", "dup.test", "/", "c">> ->
         Page(<<>>, <<>>)
    [] url = <<"https://", "site.test", "/", "s", ".pdf">> ->
         Resource("pdf", "application/pdf")
       \* fail.test: a PDF whose requests raise, one whose requests are answered
       \* 404, one whose body breaks off, a download link that is answered 404
    [] url = <<"https://", "fail.test">> ->
         Page(<< <<"/", "n", ".pdf">>, <<"/", "ok">> >>,
              << <<"/", "h", ".pdf">>, <<"/", "t", ".pdf">>, <<"/", "download", "/", "pdf">> >>)
    [] url = <<"https://", "fail.test", "/", "ok">> ->
         Page(<<>>, <<>>)
    [] url = <<"https://", "fail.test", "/", "n", ".pdf">> ->
         Resource("net_error", "")
    [] url = <<"https://", "fail.test", "/", "h", ".pdf">> ->
         Resource("http_error", "text/html")
    [] url = <<"https://", "fail.test", "/", "t", ".pdf">> ->
         Resource("truncated", "application/pdf")
       \* cov.test: three pages one link from the seed; /q is two links from
       \* the seed through /c and three through /a and /p; /z is one link
       \* from /q
    [] url = <<"https://", "cov.test">> ->
         Page(<< <<"/", "a">>, <<"/", "b">>, <<"/", "c">> >>, <<>>)
    [] url = <<"https://", "cov.test", "/", "a">> ->
         Page(<< <<"/", "p">> >>, <<>>)
    [] url = <<"https://", "cov.test", "/", "b">> ->
         Page(<<>>, <<>>)
    [] url = <<"https://", "cov.test", "/", "c">> ->
         Page(<< <<"/", "q">> >>, <<>>)
    [] url = <<"https://", "cov.test", "/", "p">> ->
         Page(<< <<"/", "q">> >>, <<>>)
    [] url = <<"https://", "cov.test", "/", "q">> ->
         Page(<< <<"/", "z">> >>, <<>>)
    [] url = <<"https://", "cov.test", "/", "z">> ->
         Page(<<>>, << <<"/", "s", ".pdf">> >>)
    [] url = <<"https://", "cov.test", "/", "s", ".pdf">> ->
         Resource("pdf", "application/pdf")
       \* other.com and blog.example.com: one page each
    [] url = <<"https://", "other.com">> ->
         Page(<< <<"/", "x", ".pdf">> >>, <<>>)
    [] url = <<"https://", "other.com", "/", "x", ".pdf">> ->
         Resource("pdf", "application/pdf")
    [] url = <<"https://", "blog.", "example.com">> ->
         Page(<< <<"/", "y", ".pdf">> >>, <<>>)
    [] url = <<"https://", "blog.", "example.com", "/", "y", ".pdf">> ->
         Resource("pdf", "application/pdf")
    [] OTHER -> Resource("http_error", "text/html")

\* session.get(url) followed by raise_for_status() and a read of the whole
\* body: TRUE when none of them raises
get_ok(url) == Web(url).kind \in {"html", "pdf"}

\* soup.find_all('a', href=True) / find_all(['embed', 'iframe', 'object'])
\* of the fetched body, as the src/href strings
page_refs(url) == Web(url).anchors \o Web(url).embeds

\* PDFCrawler.get_page_links
get_page_links(url) ==
  IF get_ok(url)
  THEN LET abs == [i \in 1..Len(Web(url).anchors) |-> urljoin(url, Web(url).anchors[i])]
       IN  SelectSeq(abs, LAMBDA u : Head(u) \in HttpPrefixes)
  ELSE <<>>

None == "None"

\* the None that extract_pdf_info returns, and a worker that holds no record
NoInfo == [status |-> "None"]

\* PDFCrawler.extract_pdf_info: a record, or None
extract_pdf_info(url, source_url) ==
  IF Web(url).kind = "net_error"
  THEN [url |-> url, filename |-> pdf_filename(url), source_url |-> source_url,
        content_type |-> "unknown", size |-> None, status |-> "unverified",
        local_path |-> None, error |-> None]
  ELSE LET content_type == Web(url).ctype
           is_valid_pdf == ends_with_pdf(url) \/ content_type = "application/pdf"
       IN  IF is_valid_pdf
           THEN [url |-> url, filename |-> pdf_filename(url), source_url |-> source_url,
                 content_type |-> content_type, size |-> "content-length",
                 status |-> "found", local_path |-> None, error |-> None]
           ELSE NoInfo

(***************************************************************************)
(* The state.                                                              *)
(*                                                                         *)
(* The k-th start request builds the PDFCrawler object k and the thread k. *)
(* Object 0 is None.                                                       *)
(***************************************************************************)
Objs == 1..MaxStarts

Slots == 1..MaxWorkers

VARIABLES
  client,         \* the requests the client may still send (the environment)
  crawler,        \* app.py global: the current PDFCrawler object, 0 for None
  crawler_thread, \* app.py global: the current crawl thread, 0 for None
  handler,        \* the start_crawl request being served, and its locals
  max_depth,      \* max_depth[o]: PDFCrawler.max_depth
  visited_urls,   \* visited_urls[o]: PDFCrawler.visited_urls
  pdf_links,      \* pdf_links[o]: PDFCrawler.pdf_links
  crawl_status,   \* crawl_status[o]: PDFCrawler.crawl_status
  settings,       \* settings[o]: auto_download_enabled and download_dir
  thr,            \* thr[t]: the crawl thread t, its position and locals
  wk,             \* wk[t][i]: the future i of the current batch of thread t; its
                  \* fields late, early and handed are history: stop_crawling()
                  \* had returned when the worker found the record it holds; it
                  \* had not returned when the worker ended; the scheduler has
                  \* taken the links the worker returned
  disk,           \* disk[filename]: the file of that name in the download directory
  stopped,        \* history: stopped[o] tells how stop_crawling() found object o
  log,            \* history: what each object's run has done so far
  probe           \* a call of one of the pure functions: its arguments, its result

vars == <<client, crawler, crawler_thread, handler, max_depth, visited_urls, pdf_links,
          crawl_status, settings, thr, wk, disk, stopped, log, probe>>

\* the seeds a client may send, the download directory it names
SeedsMain == { <<"site.test">>, <<"dup.test">>, <<"fail.test">>, <<"[bad">> }

SeedsE2E == { <<"example.com">> }

SeedsCtl == { <<"other.com">>, <<"https://", "blog.", "example.com">> }

DownloadDir == "downloads"

\* the attributes auto_download_enabled and download_dir of a PDFCrawler:
\* crawl_website sets them, __init__ does not (has: hasattr)
NoSettings == [has |-> FALSE, auto_download_enabled |-> FALSE, download_dir |-> None]

\* PDFCrawler.__init__: crawl_status
FreshStatus(running) ==
  [is_running |-> running, current_depth |-> 0, urls_processed |-> 0,
   pdfs_found |-> 0, error |-> None]

IdleThread ==
  [pc |-> "none", self |-> 0, website_url |-> <<>>, auto_download |-> FALSE,
   base_domain |-> <<>>, urls_to_visit |-> <<>>, new_urls |-> <<>>, depth |-> 0]

IdleWorker ==
  [pc |-> "idle", self |-> 0, url |-> <<>>, depth |-> 0, refs |-> <<>>,
   pdf_info |-> NoInfo, rec |-> 0, tmp |-> 0, result |-> <<>>, collected |-> FALSE,
   late |-> FALSE, early |-> FALSE, handed |-> FALSE]

IdleHandler == [pc |-> "idle", website_url |-> <<>>, max_depth |-> 0, auto_download |-> FALSE]

\* batches: the batches submitted; dispatched: <<url, depth, batch>> of every
\* target submitted, in order; enqueued: <<url, depth, seen, batch>> of every
\* target queued, in order (seen: the URL was in the visited set then; batch:
\* the batch whose worker returned the link); processed: <<url, depth>> of
\* every page that passed the visited check; downloads: <<url, late>>
EmptyLog ==
  [batches |-> 0, dispatched |-> <<>>, enqueued |-> <<>>, processed |-> <<>>,
   downloads |-> <<>>]

\* every file name a record of the web can carry
FileNames == { <<"report", ".pdf">>, <<"other", ".pdf">>, <<"s", ".pdf">>,
               <<"x", ".pdf">>, <<"y", ".pdf">>, <<"n", ".pdf">>, <<"h", ".pdf">>,
               <<"t", ".pdf">> }

Absent == [state |-> "absent", from |-> <<>>]

NoProbe == [fn |-> "none", url |-> <<>>, base_domain |-> <<>>, done |-> FALSE, result |-> FALSE]

InitWith(c, p) ==
  /\ client = c
  /\ crawler = 0
  /\ crawler_thread = 0
  /\ handler = IdleHandler
  /\ max_depth = [o \in Objs |-> 0]
  /\ visited_urls = [o \in Objs |-> {}]
  /\ pdf_links = [o \in Objs |-> <<>>]
  /\ crawl_status = [o \in Objs |-> FreshStatus(FALSE)]
  /\ settings = [o \in Objs |-> NoSettings]
  /\ thr = [t \in Objs |-> IdleThread]
  /\ wk = [t \in Objs |-> [i \in Slots |-> IdleWorker]]
  /\ disk = [f \in FileNames |-> Absent]
  /\ stopped = [o \in Objs |-> "no"]
  /\ log = [o \in Objs |-> EmptyLog]
  /\ probe = p

\* one crawl of one of the seeds, max_depth from -1 to MaxDepth, with and without auto-download
Init ==
  InitWith([starts |-> 1, stops |-> 1, seeds |-> SeedsMain, depths |-> (-1)..MaxDepth, auto |-> BOOLEAN],
           NoProbe)

(***************************************************************************)
(* The controller: app.py.                                                 *)
(***************************************************************************)
\* app.py status(): the snapshot a status query returns
get_status == IF crawler = 0 THEN FreshStatus(FALSE) ELSE crawl_status[crawler]

\* app.py results()
get_results ==
  IF crawler = 0 THEN [pdfs |-> <<>>, total_urls_visited |-> 0]
  ELSE [pdfs |-> pdf_links[crawler], total_urls_visited |-> Cardinality(visited_urls[crawler])]

\* PDFCrawler.stop_crawling on object o
stop_crawling(o) ==
  /\ crawl_status' = [crawl_status EXCEPT ![o].is_running = FALSE]
  /\ stopped' = [stopped EXCEPT ![o] =
                   IF crawl_status[o].is_running THEN "running"
                   ELSE IF @ = "no" THEN "not_running" ELSE @]

\* start_crawl, lines 33-47: read the request, stop the crawler that is running
\* and join its thread, for 5 seconds at most
start_crawl_stop ==
  /\ handler.pc = "idle"
  /\ client.starts > 0
  /\ \E u \in client.seeds, d \in client.depths, a \in client.auto :
        handler' = [pc |-> "launch", website_url |-> u, max_depth |-> d, auto_download |-> a]
  /\ client' = [client EXCEPT !.starts = @ - 1]
  /\ IF crawler # 0 /\ crawl_status[crawler].is_running
     THEN stop_crawling(crawler)
     ELSE UNCHANGED <<crawl_status, stopped>>
  /\ UNCHANGED <<probe, crawler, crawler_thread, max_depth, visited_urls, pdf_links, settings,
                 thr, wk, disk, log>>

\* start_crawl, lines 49-58: the join has returned (the thread ended, or the
\* 5 seconds passed); build the new PDFCrawler and start its thread
start_crawl_launch ==
  /\ handler.pc = "launch"
  /\ LET k == crawler + 1
     IN  /\ crawler' = k
         /\ crawler_thread' = k
         /\ max_depth' = [max_depth EXCEPT ![k] = handler.max_depth]
         /\ thr' = [thr EXCEPT ![k] =
                      [IdleThread EXCEPT !.pc = "spawned",
                                         !.website_url = handler.website_url,
                                         !.auto_download = handler.auto_download]]
  /\ handler' = IdleHandler
  /\ UNCHANGED <<probe, client, visited_urls, pdf_links, crawl_status, settings, wk,
                 disk, stopped, log>>

\* stop_crawl, lines 68-76
stop_crawl ==
  /\ crawler # 0
  /\ client.stops > 0
  /\ client' = [client EXCEPT !.stops = @ - 1]
  /\ stop_crawling(crawler)
  /\ UNCHANGED <<probe, crawler, crawler_thread, handler, max_depth, visited_urls,
                 pdf_links, settings, thr, wk, disk, log>>

(***************************************************************************)
(* The crawl thread: crawl_worker of app.py and PDFCrawler.crawl_website.  *)
(***************************************************************************)
\* app.py line 54: the thread body reads the global crawler and calls its
\* crawl_website
crawl_worker(t) ==
  /\ thr[t].pc = "spawned"
  /\ thr' = [thr EXCEPT ![t].pc = "reset", ![t].self = crawler]
  /\ UNCHANGED <<probe, client, crawler, crawler_thread, handler, max_depth, visited_urls,
                 pdf_links, crawl_status, settings, wk, disk, stopped, log>>

\* crawl_website, lines 220-226: a fresh status, is_running True
reset_status(t) ==
  /\ thr[t].pc = "reset"
  /\ crawl_status' = [crawl_status EXCEPT ![thr[t].self] = FreshStatus(TRUE)]
  /\ thr' = [thr EXCEPT ![t].pc = "setup"]
  /\ UNCHANGED <<probe, client, crawler, crawler_thread, handler, max_depth, visited_urls,
                 pdf_links, settings, wk, disk, stopped, log>>

\* the records of object o are dropped from its list: a worker that still
\* holds one holds a dict that is in no list
Unlinked(w, o) == [t \in Objs |-> [i \in Slots |->
                     IF w[t][i].self = o THEN [w[t][i] EXCEPT !.rec = 0] ELSE w[t][i]]]

\* crawl_website, lines 228-251: clear the visited set and the records, store
\* the download settings, normalize the seed, start the queue with it; when
\* urlparse raises (line 244), lines 298-300 record the exception
setup(t) ==
  LET o         == thr[t].self
      start_url == normalize_url(thr[t].website_url)
  IN  /\ thr[t].pc = "setup"
      /\ visited_urls' = [visited_urls EXCEPT ![o] = {}]
      /\ pdf_links' = [pdf_links EXCEPT ![o] = <<>>]
      /\ wk' = Unlinked(wk, o)
      /\ settings' = [settings EXCEPT ![o] = [has |-> TRUE,
                                              auto_download_enabled |-> thr[t].auto_download,
                                              download_dir |-> DownloadDir]]
      /\ thr' = IF urlparse_raises(start_url)
                THEN [thr EXCEPT ![t].pc = "finally"]
                ELSE [thr EXCEPT ![t].pc = "loop",
                                 ![t].base_domain = urlparse(start_url).netloc,
                                 ![t].urls_to_visit = << <<start_url, 0>> >>]
      /\ crawl_status' = IF urlparse_raises(start_url)
                         THEN [crawl_status EXCEPT ![o].error = InvalidIPv6]
                         ELSE crawl_status
      /\ UNCHANGED <<probe, client, crawler, crawler_thread, handler, max_depth,
                     disk, stopped, log>>

\* a loop that is never entered
loop_never_entered(urls_to_visit, status) == FALSE

\* crawl_website, line 254: the loop condition
loop_continues(urls_to_visit, status) == urls_to_visit # <<>> /\ status.is_running

loop_test(t) ==
  /\ thr[t].pc = "loop"
  /\ thr' = [thr EXCEPT ![t].pc =
               IF loop_continues(thr[t].urls_to_visit, crawl_status[thr[t].self])
               THEN "submit" ELSE "shutdown"]
  /\ UNCHANGED <<probe, client, crawler, crawler_thread, handler, max_depth, visited_urls,
                 pdf_links, crawl_status, settings, wk, disk, stopped, log>>

\* a future that counts as ended as soon as it was submitted
ended_when_submitted(w) == w.pc # "idle"

\* a future whose call never returns
never_ends(w) == FALSE

\* Future.done(): the call of crawl_page has returned; as_completed (line 267)
\* and the exit of the with block (line 253) wait for it
has_ended(w) == w.pc = "done"

\* crawl_website, lines 255-264: the head of the queue becomes the batch, one
\* future per target.  The pool has max_workers threads: the futures of a
\* batch start once the futures of the batch before have ended.
submit_batch(t) ==
  LET current_batch == Take(thr[t].urls_to_visit, MaxWorkers)
  IN  /\ thr[t].pc = "submit"
      /\ \A i \in Slots : wk[t][i].pc = "idle" \/ has_ended(wk[t][i])
      /\ wk' = [wk EXCEPT ![t] = [i \in Slots |->
                  IF i <= Len(current_batch)
                  THEN [IdleWorker EXCEPT !.pc = "check", !.self = thr[t].self,
                                          !.url = current_batch[i][1],
                                          !.depth = current_batch[i][2]]
                  ELSE IdleWorker]]
      /\ thr' = [thr EXCEPT ![t].pc = "collect",
                            ![t].urls_to_visit = Drop(@, MaxWorkers)]
      /\ log' = [log EXCEPT ![thr[t].self].batches = @ + 1,
                            ![thr[t].self].dispatched =
                               @ \o [k \in 1..Len(current_batch) |->
                                       <<current_batch[k][1], current_batch[k][2],
                                         log[thr[t].self].batches + 1>>]]
      /\ UNCHANGED <<probe, client, crawler, crawler_thread, handler, max_depth, visited_urls,
                     pdf_links, crawl_status, settings, disk, stopped>>

\* crawl_website, lines 267-273: as_completed hands over a future that has
\* ended; the loop is left when is_running is False, and when no future is left
collect(t) ==
  /\ thr[t].pc = "collect"
  /\ \/ /\ \A i \in Slots : wk[t][i].pc = "idle" \/ wk[t][i].collected
        /\ thr' = [thr EXCEPT ![t].pc = "after_batch"]
        /\ wk' = wk
     \/ \E i \in Slots :
          /\ has_ended(wk[t][i])
          /\ ~wk[t][i].collected
          /\ wk' = [wk EXCEPT ![t][i].collected = TRUE,
                              ![t][i].handed = crawl_status[thr[t].self].is_running]
          /\ thr' = IF ~crawl_status[thr[t].self].is_running
                    THEN [thr EXCEPT ![t].pc = "after_batch"]
                    ELSE [thr EXCEPT ![t].pc = "enqueue",
                                     ![t].new_urls = wk[t][i].result,
                                     ![t].depth = wk[t][i].depth]
  /\ UNCHANGED <<probe, client, crawler, crawler_thread, handler, max_depth, visited_urls,
                 pdf_links, crawl_status, settings, disk, stopped, log>>

\* a condition that queues a link whether it was visited or not
may_enqueue_visited(new_url, depth, base_domain, visited, maxd) ==
  /\ is_valid_url(new_url, base_domain)
  /\ depth + 1 <= maxd

\* crawl_website, lines 277-279: the condition under which a link is queued
may_enqueue(new_url, depth, base_domain, visited, maxd) ==
  /\ is_valid_url(new_url, base_domain)
  /\ new_url \notin visited
  /\ depth + 1 <= maxd

\* crawl_website, lines 276-281: one turn of the loop over new_urls
enqueue(t) ==
  LET o       == thr[t].self
      new_url == Head(thr[t].new_urls)
      depth   == thr[t].depth
  IN  /\ thr[t].pc = "enqueue"
      /\ IF thr[t].new_urls = <<>>
         THEN /\ thr' = [thr EXCEPT ![t].pc = "collect"]
              /\ log' = log
         ELSE IF may_enqueue(new_url, depth, thr[t].base_domain, visited_urls[o], max_depth[o])
         THEN /\ thr' = [thr EXCEPT ![t].new_urls = Tail(@),
                                    ![t].urls_to_visit = Append(@, <<new_url, depth + 1>>)]
              /\ log' = [log EXCEPT ![o].enqueued =
                            Append(@, <<new_url, depth + 1, new_url \in visited_urls[o],
                                        log[o].batches>>)]
         ELSE /\ thr' = [thr EXCEPT ![t].new_urls = Tail(@)]
              /\ log' = log
      /\ UNCHANGED <<probe, client, crawler, crawler_thread, handler, max_depth, visited_urls,
                     pdf_links, crawl_status, settings, wk, disk, stopped>>

\* max(depth for _, depth in urls_to_visit)
RECURSIVE max_depth_of(_)
max_depth_of(q) ==
  IF Len(q) = 1 THEN q[1][2]
  ELSE LET m == max_depth_of(Tail(q)) IN IF q[1][2] > m THEN q[1][2] ELSE m

\* crawl_website, lines 286-288
after_batch(t) ==
  /\ thr[t].pc = "after_batch"
  /\ crawl_status' = IF thr[t].urls_to_visit # <<>>
                     THEN [crawl_status EXCEPT ![thr[t].self].current_depth =
                                                  max_depth_of(thr[t].urls_to_visit)]
                     ELSE crawl_status
  /\ thr' = [thr EXCEPT ![t].pc = "loop", ![t].new_urls = <<>>, ![t].depth = 0]
  /\ UNCHANGED <<probe, client, crawler, crawler_thread, handler, max_depth, visited_urls,
                 pdf_links, settings, wk, disk, stopped, log>>

\* crawl_website, line 253: leaving the with block shuts the pool down and
\* waits for every future that was submitted
pool_idle(t) == \A i \in Slots : wk[t][i].pc = "idle" \/ has_ended(wk[t][i])

shutdown(t) ==
  /\ thr[t].pc = "shutdown"
  /\ pool_idle(t)
  /\ thr' = [thr EXCEPT ![t].pc = "finally"]
  /\ UNCHANGED <<probe, client, crawler, crawler_thread, handler, max_depth, visited_urls,
                 pdf_links, crawl_status, settings, wk, disk, stopped, log>>

\* a finally block that leaves the status as it is
finally_keeps_status(t) ==
  /\ thr[t].pc = "finally"
  /\ thr' = [thr EXCEPT ![t].pc = "done"]
  /\ UNCHANGED <<probe, client, crawler, crawler_thread, handler, max_depth, visited_urls,
                 pdf_links, crawl_status, settings, wk, disk, stopped, log>>

\* crawl_website, lines 301-302
finally(t) ==
  /\ thr[t].pc = "finally"
  /\ crawl_status' = [crawl_status EXCEPT ![thr[t].self].is_running = FALSE]
  /\ thr' = [thr EXCEPT ![t].pc = "done"]
  /\ UNCHANGED <<probe, client, crawler, crawler_thread, handler, max_depth, visited_urls,
                 pdf_links, settings, wk, disk, stopped, log>>

(***************************************************************************)
(* A future of the batch: PDFCrawler.crawl_page, run by a pool thread.     *)
(***************************************************************************)
WorkerFrame == <<probe, client, crawler, crawler_thread, handler, max_depth, thr, stopped>>

\* crawl_page, lines 156-157
may_process(url, depth, visited, maxd) == ~(depth > maxd \/ url \in visited)

check_visited(t, i) ==
  LET w == wk[t][i]
  IN  /\ w.pc = "check"
      /\ wk' = [wk EXCEPT ![t][i].pc =
                  IF may_process(w.url, w.depth, visited_urls[w.self], max_depth[w.self])
                  THEN "add" ELSE "done",
                          ![t][i].early = (stopped[w.self] # "running")]
      /\ UNCHANGED <<WorkerFrame, visited_urls, pdf_links, crawl_status, settings, disk, log>>

\* crawl_page, line 159
add_visited(t, i) ==
  LET w == wk[t][i]
  IN  /\ w.pc = "add"
      /\ visited_urls' = [visited_urls EXCEPT ![w.self] = @ \cup {w.url}]
      /\ log' = [log EXCEPT ![w.self].processed = Append(@, <<w.url, w.depth>>)]
      /\ wk' = [wk EXCEPT ![t][i].pc = "inc_read"]
      /\ UNCHANGED <<WorkerFrame, pdf_links, crawl_status, settings, disk>>

\* crawl_page, line 160: urls_processed += 1 reads the counter ...
inc_read(t, i) ==
  LET w == wk[t][i]
  IN  /\ w.pc = "inc_read"
      /\ wk' = [wk EXCEPT ![t][i].pc = "inc_write",
                          ![t][i].tmp = crawl_status[w.self].urls_processed]
      /\ UNCHANGED <<WorkerFrame, visited_urls, pdf_links, crawl_status, settings, disk, log>>

\* ... and stores the sum
inc_write(t, i) ==
  LET w == wk[t][i]
  IN  /\ w.pc = "inc_write"
      /\ crawl_status' = [crawl_status EXCEPT ![w.self].urls_processed = w.tmp + 1]
      /\ wk' = [wk EXCEPT ![t][i].pc = "set_depth", ![t][i].tmp = 0]
      /\ UNCHANGED <<WorkerFrame, visited_urls, pdf_links, settings, disk, log>>

\* crawl_page, line 161
set_depth(t, i) ==
  LET w == wk[t][i]
  IN  /\ w.pc = "set_depth"
      /\ crawl_status' = [crawl_status EXCEPT ![w.self].current_depth = w.depth]
      /\ wk' = [wk EXCEPT ![t][i].pc = "get"]
      /\ UNCHANGED <<WorkerFrame, visited_urls, pdf_links, settings, disk, log>>

\* crawl_page, lines 167-170: fetch and parse the page; an exception ends the
\* function at lines 213-216
get_page(t, i) ==
  LET w == wk[t][i]
  IN  /\ w.pc = "get"
      /\ wk' = IF get_ok(w.url)
               THEN [wk EXCEPT ![t][i].pc = "scan", ![t][i].refs = page_refs(w.url)]
               ELSE [wk EXCEPT ![t][i].pc = "done",
                               ![t][i].early = (stopped[w.self] # "running")]
      /\ UNCHANGED <<WorkerFrame, visited_urls, pdf_links, crawl_status, settings, disk, log>>

\* the references from the first one that is_pdf_url accepts
from_next_pdf(refs, url) ==
  LET I == { k \in 1..Len(refs) : \E u \in {urljoin(url, refs[k])} : is_pdf_url(u) }
  IN  IF I = {} THEN <<>>
      ELSE SubSeq(refs, CHOOSE k \in I : \A j \in I : k <= j, Len(refs))

\* crawl_page, line 180 (and 198): the record is new
is_new_record(pdf_info, links) ==
  pdf_info # NoInfo /\ ~(\E k \in 1..Len(links) : links[k].url = pdf_info.url)

\* crawl_page, lines 174-180 and 192-198: the loops over the anchors and over
\* the embeds, up to the next reference that is_pdf_url accepts; its HEAD
\* request and the test that its record is new
scan(t, i) ==
  LET w == wk[t][i]
  IN  /\ w.pc = "scan"
      /\ \E refs \in {from_next_pdf(w.refs, w.url)} :
         \E u \in {IF refs = <<>> THEN <<>> ELSE urljoin(w.url, Head(refs))} :
         \E pdf_info \in {IF refs = <<>> THEN NoInfo ELSE extract_pdf_info(u, w.url)} :
            wk' = IF refs = <<>>
                  THEN [wk EXCEPT ![t][i].pc = "links", ![t][i].refs = <<>>]
                  ELSE IF is_new_record(pdf_info, pdf_links[w.self])
                  THEN [wk EXCEPT ![t][i].pc = "append", ![t][i].refs = Tail(refs),
                                  ![t][i].pdf_info = pdf_info,
                                  ![t][i].late = (stopped[w.self] = "running")]
                  ELSE [wk EXCEPT ![t][i].refs = Tail(refs)]
      /\ UNCHANGED <<WorkerFrame, visited_urls, pdf_links, crawl_status, settings, disk, log>>

\* crawl_page, lines 182-183 (and 200-201)
append_record(t, i) ==
  LET w == wk[t][i]
  IN  /\ w.pc = "append"
      /\ pdf_links' = [pdf_links EXCEPT ![w.self] = Append(@, w.pdf_info)]
      /\ wk' = [wk EXCEPT ![t][i].pc = "found_read",
                          ![t][i].rec = Len(pdf_links[w.self]) + 1]
      /\ UNCHANGED <<WorkerFrame, visited_urls, crawl_status, settings, disk, log>>

\* crawl_page, line 184: pdfs_found += 1 reads the counter ...
found_read(t, i) ==
  LET w == wk[t][i]
  IN  /\ w.pc = "found_read"
      /\ wk' = [wk EXCEPT ![t][i].pc = "found_write",
                          ![t][i].tmp = crawl_status[w.self].pdfs_found]
      /\ UNCHANGED <<WorkerFrame, visited_urls, pdf_links, crawl_status, settings, disk, log>>

\* crawl_page, line 188: download at once
wants_download(cfg) ==
  cfg.has /\ cfg.auto_download_enabled /\ cfg.has

\* ... and stores the sum; then line 188
found_write(t, i) ==
  LET w == wk[t][i]
  IN  /\ w.pc = "found_write"
      /\ crawl_status' = [crawl_status EXCEPT ![w.self].pdfs_found = w.tmp + 1]
      /\ wk' = IF wants_download(settings[w.self])
               THEN [wk EXCEPT ![t][i].pc = "dl_begin", ![t][i].tmp = 0]
               ELSE [wk EXCEPT ![t][i].pc = "scan", ![t][i].tmp = 0,
                               ![t][i].pdf_info = NoInfo, ![t][i].rec = 0,
                               ![t][i].late = FALSE]
      /\ UNCHANGED <<WorkerFrame, visited_urls, pdf_links, settings, disk, log>>

\* pdf_info[key] = value, for the dict the worker holds: it is the one in
\* the list unless the list was cleared since
set_record(links, w, status, local_path, error) ==
  IF w.rec = 0 THEN links
  ELSE [links EXCEPT ![w.self][w.rec].status = status,
                     ![w.self][w.rec].local_path = local_path,
                     ![w.self][w.rec].error = error]

end_download(w) == [w EXCEPT !.pc = "scan", !.pdf_info = NoInfo, !.rec = 0, !.late = FALSE]

\* a test that never finds the file
path_never_exists(filename) == FALSE

\* os.path.exists(filepath), line 382
path_exists(filename) == disk[filename].state # "absent"

\* download_single_pdf, lines 363-385: the file is there already
dl_begin(t, i) ==
  LET w        == wk[t][i]
      filename == w.pdf_info.filename
  IN  /\ w.pc = "dl_begin"
      /\ IF settings[w.self].download_dir = None
         THEN /\ wk' = [wk EXCEPT ![t][i] = end_download(w)]
              /\ pdf_links' = pdf_links
         ELSE IF path_exists(filename)
         THEN /\ wk' = [wk EXCEPT ![t][i] = end_download(w)]
              /\ pdf_links' = set_record(pdf_links, w, "already_exists", None, None)
         ELSE /\ wk' = [wk EXCEPT ![t][i].pc = "dl_get"]
              /\ pdf_links' = pdf_links
      /\ UNCHANGED <<WorkerFrame, visited_urls, crawl_status, settings, disk, log>>

\* download_single_pdf, lines 388-391: the GET, and the open that creates the
\* file; an exception is recorded at lines 400-404
dl_get(t, i) ==
  LET w == wk[t][i]
  IN  /\ w.pc = "dl_get"
      /\ log' = [log EXCEPT ![w.self].downloads = Append(@, <<w.pdf_info.url, w.late>>)]
      /\ IF Web(w.pdf_info.url).kind \in {"http_error", "net_error"}
         THEN /\ wk' = [wk EXCEPT ![t][i] = end_download(w)]
              /\ pdf_links' = set_record(pdf_links, w, "download_failed", None, "error")
              /\ disk' = disk
         ELSE /\ wk' = [wk EXCEPT ![t][i].pc = "dl_write"]
              /\ pdf_links' = pdf_links
              /\ disk' = [disk EXCEPT ![w.pdf_info.filename] =
                                         [state |-> "partial", from |-> w.pdf_info.url]]
      /\ UNCHANGED <<WorkerFrame, visited_urls, crawl_status, settings>>

\* download_single_pdf, lines 392-393: the chunks are written
dl_write(t, i) ==
  LET w == wk[t][i]
  IN  /\ w.pc = "dl_write"
      /\ IF Web(w.pdf_info.url).kind = "truncated"
         THEN /\ wk' = [wk EXCEPT ![t][i] = end_download(w)]
              /\ pdf_links' = set_record(pdf_links, w, "download_failed", None, "error")
              /\ disk' = disk
         ELSE /\ wk' = [wk EXCEPT ![t][i].pc = "dl_done"]
              /\ pdf_links' = pdf_links
              /\ disk' = [disk EXCEPT ![w.pdf_info.filename] =
                                         [state |-> "complete", from |-> w.pdf_info.url]]
      /\ UNCHANGED <<WorkerFrame, visited_urls, crawl_status, settings, log>>

\* download_single_pdf, lines 395-398
dl_done(t, i) ==
  LET w == wk[t][i]
  IN  /\ w.pc = "dl_done"
      /\ wk' = [wk EXCEPT ![t][i] = end_download(w)]
      /\ pdf_links' = set_record(pdf_links, w, "downloaded", w.pdf_info.filename, None)
      /\ UNCHANGED <<WorkerFrame, visited_urls, crawl_status, settings, disk, log>>

\* the links of a page at max_depth are returned too
follows_links_at_max(depth, maxd) == depth <= maxd

\* crawl_page, line 210
follows_links(depth, maxd) == depth < maxd

\* crawl_page, lines 209-216
return_links(t, i) ==
  LET w == wk[t][i]
  IN  /\ w.pc = "links"
      /\ wk' = [wk EXCEPT ![t][i].pc = "done",
                          ![t][i].early = (stopped[w.self] # "running"),
                          ![t][i].result = IF follows_links(w.depth, max_depth[w.self])
                                           THEN get_page_links(w.url) ELSE <<>>]
      /\ UNCHANGED <<WorkerFrame, visited_urls, pdf_links, crawl_status, settings, disk, log>>

(***************************************************************************)
(* The specifications.                                                     *)
(***************************************************************************)
Controller == start_crawl_stop \/ start_crawl_launch \/ stop_crawl

Thread(t) ==
  \/ crawl_worker(t) \/ reset_status(t) \/ setup(t) \/ loop_test(t) \/ submit_batch(t)
  \/ collect(t) \/ enqueue(t) \/ after_batch(t) \/ shutdown(t) \/ finally(t)

Worker(t, i) ==
  \/ check_visited(t, i) \/ add_visited(t, i) \/ inc_read(t, i) \/ inc_write(t, i)
  \/ set_depth(t, i) \/ get_page(t, i) \/ scan(t, i) \/ append_record(t, i)
  \/ found_read(t, i) \/ found_write(t, i) \/ dl_begin(t, i) \/ dl_get(t, i)
  \/ dl_write(t, i) \/ dl_done(t, i) \/ return_links(t, i)

Next ==
  \/ Controller
  \/ \E t \in Objs : Thread(t)
  \/ \E t \in Objs, i \in Slots : Worker(t, i)

Spec == Init /\ [][Next]_vars

\* One crawl of a site whose pages link back to the seed, or of a site whose
\* fetches, probes and downloads fail, scheduled fairly: as long as the crawl
\* thread or a thread of the pool is ready to take a step, one of them does
\* (a step that is ready stays ready until it is taken).
SeedsLive == { <<"site.test">>, <<"fail.test">> }

InitLive ==
  InitWith([starts |-> 1, stops |-> 1, seeds |-> SeedsLive, depths |-> {MaxDepth},
            auto |-> BOOLEAN], NoProbe)

Run == (\E t \in Objs : Thread(t)) \/ (\E t \in Objs, i \in Slots : Worker(t, i))

Fairness == WF_vars(Run)

SpecLive == InitLive /\ [][Next]_vars /\ Fairness

\* one crawl of cov.test, one level deeper than the crawls above: /z is
\* within the bound through the shortest way
SeedsCov == { <<"cov.test">> }

InitCov ==
  InitWith([starts |-> 1, stops |-> 1, seeds |-> SeedsCov, depths |-> {MaxDepth + 1},
            auto |-> BOOLEAN], NoProbe)

SpecCov == InitCov /\ [][Next]_vars

\* the end-to-end scenario: one crawl of example.com with max_depth 1
InitE2E ==
  InitWith([starts |-> 1, stops |-> 1, seeds |-> SeedsE2E, depths |-> {1}, auto |-> BOOLEAN],
           NoProbe)

SpecE2E == InitE2E /\ [][Next]_vars

\* the controller: start requests that follow each other
InitCtl ==
  InitWith([starts |-> MaxStarts, stops |-> 1, seeds |-> SeedsCtl, depths |-> {0},
            auto |-> {TRUE}], NoProbe)

SpecCtl == InitCtl /\ [][Next]_vars

(***************************************************************************)
(* Calls of is_valid_url, for every candidate and base domain below.       *)
(***************************************************************************)
CandSchemes == { <<"https://">>, <<"http://">>, <<"ftp://">>, <<"mailto:">>, <<"tel:">>, <<>> }

CandHosts == { <<"example.com">>, <<"www.", "example.com">>, <<"blog.", "example.com">>,
               <<"other.com">> }

CandPaths == { <<>>, <<"/", "page2">>, <<"/", "logo", ".png">>, <<"/", "logo", ".PNG">>,
               <<"/", "report", ".pdf">> }

CandFragments == { <<>>, <<"#top">> }

Candidates == { s \o h \o p \o f : s \in CandSchemes, h \in CandHosts, p \in CandPaths,
                                   f \in CandFragments }

BaseDomains == { <<"example.com">>, <<"www.", "example.com">>, <<"other.com">> }

InitScope ==
  \E u \in Candidates, b \in BaseDomains :
     InitWith([starts |-> 0, stops |-> 0, seeds |-> {}, depths |-> {}, auto |-> {}],
              [fn |-> "is_valid_url", url |-> u, base_domain |-> b,
               done |-> FALSE, result |-> FALSE])

call_is_valid_url ==
  /\ probe.fn = "is_valid_url"
  /\ ~probe.done
  /\ probe' = [probe EXCEPT !.done = TRUE, !.result = is_valid_url(probe.url, probe.base_domain)]
  /\ UNCHANGED <<client, crawler, crawler_thread, handler, max_depth, visited_urls,
                 pdf_links, crawl_status, settings, thr, wk, disk, stopped, log>>

NextScope == call_is_valid_url

SpecScope == InitScope /\ [][NextScope]_vars

(***************************************************************************)
(* Calls of normalize_url: for every seed string of at most MaxSeedLen     *)
(* tokens, normalize_url(s) and then normalize_url of the result.          *)
(***************************************************************************)
MaxSeedLen == 3

SeedTokens == {Blank, "https://", "http://", "ftp://", "example.com"}

SeedStrings == UNION { [1..n -> SeedTokens] : n \in 0..MaxSeedLen }

InitNorm ==
  \E s \in SeedStrings :
     InitWith([starts |-> 0, stops |-> 0, seeds |-> {}, depths |-> {}, auto |-> {}],
              [fn |-> "normalize_url", url |-> s, base_domain |-> <<>>, done |-> FALSE,
               result |-> FALSE, calls |-> 0, out |-> <<>>, again |-> <<>>])

\* out = normalize_url(url), then again = normalize_url(out)
call_normalize_url ==
  /\ probe.fn = "normalize_url"
  /\ ~probe.done
  /\ probe' = IF probe.calls = 0
              THEN [probe EXCEPT !.calls = 1, !.out = normalize_url(probe.url)]
              ELSE [probe EXCEPT !.calls = 2, !.again = normalize_url(probe.out),
                                 !.done = TRUE]
  /\ UNCHANGED <<client, crawler, crawler_thread, handler, max_depth, visited_urls,
                 pdf_links, crawl_status, settings, thr, wk, disk, stopped, log>>

NextNorm == call_normalize_url

SpecNorm == InitNorm /\ [][NextNorm]_vars

(***************************************************************************)
(* Calls of download_single_pdf, one after the other, for one record: the  *)
(* record of any of the URLs below, with and without a download directory, *)
(* with and without a file of the record's name in it beforehand.          *)
(***************************************************************************)
\* calls of download_single_pdf made for the record
MaxCalls == 2

DlSeed == <<"https://", "fail.test">>

DlUrls == { DlSeed \o <<"/", "n", ".pdf">>, DlSeed \o <<"/", "h", ".pdf">>,
            DlSeed \o <<"/", "t", ".pdf">>, <<"https://", "site.test", "/", "s", ".pdf">>,
            <<"https://", "other.com", "/", "x", ".pdf">>,
            <<"https://", "example.com", "/", "report", ".pdf">> }

\* a file that was in the directory before the first call
Foreign == [state |-> "complete", from |-> <<"elsewhere">>]

InitDl ==
  \E u \in DlUrls, dir \in {DownloadDir, None}, f \in {Absent, Foreign} :
     /\ client = [starts |-> 0, stops |-> 0, seeds |-> {}, depths |-> {}, auto |-> {}]
     /\ crawler = 0
     /\ crawler_thread = 0
     /\ handler = IdleHandler
     /\ max_depth = [o \in Objs |-> 0]
     /\ visited_urls = [o \in Objs |-> {}]
     /\ pdf_links = [o \in Objs |-> IF o = 1 THEN <<extract_pdf_info(u, DlSeed)>> ELSE <<>>]
     /\ crawl_status = [o \in Objs |-> FreshStatus(FALSE)]
     /\ settings = [o \in Objs |-> IF o = 1
                                    THEN [has |-> TRUE, auto_download_enabled |-> TRUE,
                                          download_dir |-> dir]
                                    ELSE NoSettings]
     /\ thr = [t \in Objs |-> IdleThread]
     /\ wk = [t \in Objs |-> [i \in Slots |-> IdleWorker]]
     /\ disk = [n \in FileNames |-> IF n = pdf_filename(u) THEN f ELSE Absent]
     /\ stopped = [o \in Objs |-> "no"]
     /\ log = [o \in Objs |-> EmptyLog]
     /\ probe = [fn |-> "download_single_pdf", url |-> u, base_domain |-> <<>>,
                 done |-> FALSE, result |-> FALSE, calls |-> 0, before |-> f]

\* self.download_single_pdf(pdf_info) for the record of the list; before: the
\* file of the record's name as the call finds it
call_download_single_pdf ==
  /\ probe.fn = "download_single_pdf"
  /\ probe.calls < MaxCalls
  /\ wk[1][1].pc \in {"idle", "scan"}
  /\ wk' = [wk EXCEPT ![1][1] = [IdleWorker EXCEPT !.pc = "dl_begin", !.self = 1,
                                                   !.pdf_info = pdf_links[1][1],
                                                   !.rec = 1]]
  /\ probe' = [probe EXCEPT !.calls = @ + 1, !.before = disk[pdf_links[1][1].filename]]
  /\ UNCHANGED <<client, crawler, crawler_thread, handler, max_depth, visited_urls,
                 pdf_links, crawl_status, settings, thr, disk, stopped, log>>

NextDl ==
  \/ call_download_single_pdf
  \/ dl_begin(1, 1) \/ dl_get(1, 1) \/ dl_write(1, 1) \/ dl_done(1, 1)

SpecDl == InitDl /\ [][NextDl]_vars

(***************************************************************************)
(* Calls of download_pdfs, one after the other, on a list of two records   *)
(* as a crawl without auto-download leaves them, with and without a file   *)
(* of the first record's name in the directory beforehand.  The call's     *)
(* position is kept in probe: pc, and k, the index of the loop of line 324.*)
(***************************************************************************)
\* calls of download_pdfs made on the list
MaxBatchCalls == 2

InitAll ==
  \E u1 \in DlUrls, f \in {Absent, Foreign} : \E u2 \in DlUrls \ {u1} :
     /\ client = [starts |-> 0, stops |-> 0, seeds |-> {}, depths |-> {}, auto |-> {}]
     /\ crawler = 0
     /\ crawler_thread = 0
     /\ handler = IdleHandler
     /\ max_depth = [o \in Objs |-> 0]
     /\ visited_urls = [o \in Objs |-> {}]
     /\ pdf_links = [o \in Objs |-> IF o = 1 THEN <<extract_pdf_info(u1, DlSeed),
                                                     extract_pdf_info(u2, DlSeed)>>
                                    ELSE <<>>]
     /\ crawl_status = [o \in Objs |-> FreshStatus(FALSE)]
     /\ settings = [o \in Objs |-> NoSettings]
     /\ thr = [t \in Objs |-> IdleThread]
     /\ wk = [t \in Objs |-> [i \in Slots |-> IdleWorker]]
     /\ disk = [n \in FileNames |-> IF n = pdf_filename(u1) THEN f ELSE Absent]
     /\ stopped = [o \in Objs |-> "no"]
     /\ log = [o \in Objs |-> EmptyLog]
     /\ probe = [fn |-> "download_pdfs", url |-> u1, base_domain |-> <<>>,
                 done |-> FALSE, result |-> FALSE, calls |-> 0, pc |-> "idle", k |-> 0,
                 before |-> <<>>]

AllFrame == <<client, crawler, crawler_thread, handler, max_depth, visited_urls,
              crawl_status, settings, thr, wk, stopped, log>>

\* download_pdfs, lines 310-322; before: the list as the call finds it
call_download_pdfs ==
  /\ probe.fn = "download_pdfs"
  /\ probe.pc = "idle"
  /\ probe.calls < MaxBatchCalls
  /\ probe' = [probe EXCEPT !.calls = @ + 1, !.pc = "exists", !.k = 1,
                            !.before = pdf_links[1]]
  /\ UNCHANGED <<AllFrame, pdf_links, disk>>

\* download_pdfs, lines 324-336 and 358: the next record of the list, whatever
\* its status is; the file is there already
dp_exists ==
  /\ probe.fn = "download_pdfs"
  /\ probe.pc = "exists"
  /\ IF probe.k > Len(pdf_links[1])
     THEN /\ probe' = [probe EXCEPT !.pc = "idle", !.k = 0]
          /\ pdf_links' = pdf_links
     ELSE IF path_exists(pdf_links[1][probe.k].filename)
     THEN /\ probe' = [probe EXCEPT !.k = @ + 1]
          /\ pdf_links' = [pdf_links EXCEPT ![1][probe.k].status = "already_exists"]
     ELSE /\ probe' = [probe EXCEPT !.pc = "get"]
          /\ pdf_links' = pdf_links
  /\ UNCHANGED <<AllFrame, disk>>

\* download_pdfs, lines 339-342: the GET, and the open that creates the file;
\* an exception is recorded at lines 351-355
dp_get ==
  /\ probe.fn = "download_pdfs"
  /\ probe.pc = "get"
  /\ IF Web(pdf_links[1][probe.k].url).kind \in {"http_error", "net_error"}
     THEN /\ probe' = [probe EXCEPT !.pc = "exists", !.k = @ + 1]
          /\ pdf_links' = [pdf_links EXCEPT ![1][probe.k].status = "download_failed",
                                            ![1][probe.k].error = "error"]
          /\ disk' = disk
     ELSE /\ probe' = [probe EXCEPT !.pc = "write"]
          /\ pdf_links' = pdf_links
          /\ disk' = [disk EXCEPT ![pdf_links[1][probe.k].filename] =
                                     [state |-> "partial", from |-> pdf_links[1][probe.k].url]]
  /\ UNCHANGED AllFrame

\* download_pdfs, lines 343-344: the chunks are written
dp_write ==
  /\ probe.fn = "download_pdfs"
  /\ probe.pc = "write"
  /\ IF Web(pdf_links[1][probe.k].url).kind = "truncated"
     THEN /\ probe' = [probe EXCEPT !.pc = "exists", !.k = @ + 1]
          /\ pdf_links' = [pdf_links EXCEPT ![1][probe.k].status = "download_failed",
                                            ![1][probe.k].error = "error"]
          /\ disk' = disk
     ELSE /\ probe' = [probe EXCEPT !.pc = "done"]
          /\ pdf_links' = pdf_links
          /\ disk' = [disk EXCEPT ![pdf_links[1][probe.k].filename] =
                                     [state |-> "complete", from |-> pdf_links[1][probe.k].url]]
  /\ UNCHANGED AllFrame

\* download_pdfs, lines 346-349
dp_done ==
  /\ probe.fn = "download_pdfs"
  /\ probe.pc = "done"
  /\ probe' = [probe EXCEPT !.pc = "exists", !.k = @ + 1]
  /\ pdf_links' = [pdf_links EXCEPT ![1][probe.k].status = "downloaded",
                                    ![1][probe.k].local_path =
                                       pdf_links[1][probe.k].filename]
  /\ UNCHANGED <<AllFrame, disk>>

NextAll == call_download_pdfs \/ dp_exists \/ dp_get \/ dp_write \/ dp_done

SpecAll == InitAll /\ [][NextAll]_vars

(***************************************************************************)
(* The claims.                                                             *)
(***************************************************************************)
\* does one and the same first component occur at two places of the sequence
HasRepeat(s) == \E j, k \in 1..Len(s) : j # k /\ s[j][1] = s[k][1]

\* C1: the record list of a run never holds two records with the same url,
\* whatever the interleaving of the workers of a batch.
C1_NoDuplicateRecords ==
  \A o \in Objs : \A j, k \in 1..Len(pdf_links[o]) :
     j # k => pdf_links[o][j].url # pdf_links[o][k].url

\* C2: each URL passes the visited check of crawl_page, and is fetched, in
\* at most one worker of a run.
C2_ProcessedOnce == \A o \in Objs : ~HasRepeat(log[o].processed)

\* C3: no URL is put into the frontier more than once during a run.
C3_EnqueuedOnce == \A o \in Objs : ~HasRepeat(log[o].enqueued)

\* C4: no page is processed at a depth greater than max_depth, every record
\* comes from a page that was processed (so at a depth within the bound),
\* nothing is queued beyond max_depth, and a worker of a page at max_depth
\* (or deeper) hands no links to the scheduler.
C4_DepthBound ==
  \A o \in Objs :
     /\ \A k \in 1..Len(log[o].processed) : log[o].processed[k][2] <= max_depth[o]
     /\ \A k \in 1..Len(pdf_links[o]) :
           \E j \in 1..Len(log[o].processed) :
              log[o].processed[j][1] = pdf_links[o][k].source_url
     /\ \A k \in 1..Len(log[o].enqueued) : log[o].enqueued[k][2] <= max_depth[o]
     /\ \A t \in Objs, i \in Slots :
           wk[t][i].self = o /\ wk[t][i].depth >= max_depth[o] => wk[t][i].result = <<>>

\* C4, its case: a page that has links was processed at depth = max_depth,
\* and its worker has ended
C4_Witness ==
  \E t \in Objs, i \in Slots :
     /\ wk[t][i].pc = "done"
     /\ wk[t][i].depth = max_depth[wk[t][i].self]
     /\ <<wk[t][i].url, wk[t][i].depth>> \in Range(log[wk[t][i].self].processed)
     /\ get_page_links(wk[t][i].url) # <<>>

\* C5: once stop_crawling() has returned on a run that was running, the
\* scheduler of that run submits no further batch.
C5_NoBatchAfterStop ==
  [][\A o \in Objs : stopped[o] = "running" => log'[o].batches = log[o].batches]_vars

\* C6: a worker that finds a new PDF after stop_crawling() has returned on
\* its running run starts no download for it.
C6_NoDownloadAfterStop ==
  \A o \in Objs : \A k \in 1..Len(log[o].downloads) : ~log[o].downloads[k][2]

file_exists(filename) == disk[filename].state # "absent"

all_reachable_on_disk(o) ==
  \A k \in 1..Len(pdf_links[o]) :
     get_ok(pdf_links[o][k].url) => file_exists(pdf_links[o][k].filename)

\* C7: with auto-download on, whenever a status query reports
\* is_running = False, the file of every record whose resource is reachable
\* exists in the download directory - also in a run that was stopped.
C7_FilesBeforeNotRunning ==
  (crawler # 0 /\ wants_download(settings[crawler]) /\ ~get_status.is_running)
     => all_reachable_on_disk(crawler)

E2ESeed == <<"https://", "example.com">>

E2ERecords == { E2ESeed \o <<"/", "report", ".pdf">>, E2ESeed \o <<"/", "other", ".pdf">> }

e2e_complete == thr[1].pc = "done" /\ stopped[1] # "running"

\* C8 as stated: the complete run of the scenario ends with 2 visited URLs
\* and the 2 records report.pdf and other.pdf.
C8_TwoVisitedTwoRecords ==
  e2e_complete =>
     /\ Cardinality(visited_urls[1]) = 2
     /\ Len(pdf_links[1]) = 2
     /\ { pdf_links[1][k].url : k \in 1..Len(pdf_links[1]) } = E2ERecords

\* C8 amended: it ends with 3 visited URLs - the seed, page2 and report.pdf,
\* which is in scope and is fetched as a page at depth 1 - and the 2 records.
C8_ThreeVisitedTwoRecords ==
  e2e_complete =>
     /\ visited_urls[1] = { E2ESeed, E2ESeed \o <<"/", "page2">>,
                            E2ESeed \o <<"/", "report", ".pdf">> }
     /\ Len(pdf_links[1]) = 2
     /\ { pdf_links[1][k].url : k \in 1..Len(pdf_links[1]) } = E2ERecords

\* C8, its case: the run of the scenario has ended and was never stopped
C8_Witness == thr[1].pc = "done" /\ stopped[1] = "no" /\ max_depth[1] = 1

\* the candidates C9 names
has_other_scheme(url) == url = <<>> \/ Head(url) \notin HttpPrefixes

is_fragment_anchor(url) == \E i \in 1..Len(url) : url[i] \in FragmentTokens

is_mail_or_tel(url) == url # <<>> /\ Head(url) \in {"mailto:", "tel:"}

ends_in_asset_extension(url) == url # <<>> /\ Last(url) \in AssetExtTokens

\* C9: is_valid_url answers False for a candidate with a scheme other than
\* http/https, with a fragment, for a mailto:/tel: link and for a candidate
\* that ends in a static-asset extension, whatever its host and the base.
C9_RejectsOutOfScope ==
  (probe.fn = "is_valid_url" /\ probe.done
     /\ (\/ has_other_scheme(probe.url) \/ is_fragment_anchor(probe.url)
         \/ is_mail_or_tel(probe.url) \/ ends_in_asset_extension(probe.url)))
  => probe.result = FALSE

\* C10: a crawl thread works on the PDFCrawler built by its own start
\* request: the thread of an earlier start never resets, clears or fills the
\* object that status() and results() read after a later start.
C10_RunsShareNoState ==
  \A t \in Objs : thr[t].pc \notin {"none", "spawned", "reset"} => thr[t].self = t

\* the thread t is inside the try block of crawl_website, or past it
in_try(t) == thr[t].pc \notin {"none", "spawned", "reset", "setup"}

\* the seed of thread t is one that urlparse accepts
seed_parses(t) == ~urlparse_raises(normalize_url(thr[t].website_url))

\* C11: a failure of one page fetch, one probe or one download never aborts
\* the run: error stays unset, is_running stays True until the run ends
\* (unless stop_crawling() is called), and a run that was not stopped ends
\* only when every target that was queued has been dispatched.
C11_FailuresContained ==
  \A t \in Objs :
     (in_try(t) /\ seed_parses(t)) =>
        /\ crawl_status[thr[t].self].error = None
        /\ (stopped[thr[t].self] = "no" /\ thr[t].pc # "done")
              => crawl_status[thr[t].self].is_running
        /\ (stopped[thr[t].self] = "no" /\ thr[t].pc = "done")
              => Len(log[thr[t].self].dispatched) = 1 + Len(log[thr[t].self].enqueued)

\* C11, its case: the run of fail.test has ended without a stop; a page
\* fetch, a probe and a download failed in it, and the page /ok, queued
\* together with the page whose fetch failed, was processed
C11_Witness ==
  /\ thr[1].pc = "done"
  /\ stopped[1] = "no"
  /\ <<"https://", "fail.test", "/", "n", ".pdf">> \in visited_urls[1]
  /\ <<"https://", "fail.test", "/", "ok">> \in visited_urls[1]
  /\ \E k \in 1..Len(pdf_links[1]) : pdf_links[1][k].content_type = "unknown"
  /\ \E k \in 1..Len(pdf_links[1]) : pdf_links[1][k].status = "download_failed"

\* C12: a run that has ended - by an empty queue, by a stop or by an
\* exception of its try block - has is_running = False; error holds the
\* message of the exception when there was one, and is unset otherwise.
C12_EndsNotRunning ==
  \A t \in Objs :
     thr[t].pc = "done" =>
        /\ ~crawl_status[thr[t].self].is_running
        /\ crawl_status[thr[t].self].error = (IF seed_parses(t) THEN None ELSE InvalidIPv6)

\* C12, its case: a run has ended through the exception of urlparse
C12_Witness ==
  \E t \in Objs :
     /\ thr[t].pc = "done"
     /\ ~seed_parses(t)
     /\ crawl_status[thr[t].self].error = InvalidIPv6
     /\ ~crawl_status[thr[t].self].is_running

\* the HEAD request of url fails: it raises, or it is answered non-2xx
probe_fails(url) == Web(url).kind \in {"net_error", "http_error"}

\* the references of the page url that is_pdf_url accepts, as absolute URLs
candidates_of(url) ==
  { u \in { urljoin(url, page_refs(url)[k]) : k \in 1..Len(page_refs(url)) } : is_pdf_url(u) }

\* C13: a candidate whose probe fails (the request raises, or the answer is
\* non-2xx) is not discarded: its record has status unverified, content_type
\* "unknown" and no size when it is appended, and when a run that was not
\* stopped has ended, every candidate of every page it fetched has a record.
C13_ProbeFailureUnverified ==
  /\ \A t \in Objs, i \in Slots :
        (wk[t][i].pc = "append" /\ probe_fails(wk[t][i].pdf_info.url)) =>
           /\ wk[t][i].pdf_info.status = "unverified"
           /\ wk[t][i].pdf_info.content_type = "unknown"
           /\ wk[t][i].pdf_info.size = None
  /\ \A t \in Objs :
        (thr[t].pc = "done" /\ stopped[thr[t].self] = "no") =>
           \A p \in { u \in visited_urls[thr[t].self] : get_ok(u) } :
              \A c \in candidates_of(p) :
                 \E k \in 1..Len(pdf_links[thr[t].self]) : pdf_links[thr[t].self][k].url = c

\* the second call of download_single_pdf (or a later one) has returned, and
\* there is a download directory
second_call_returned ==
  /\ probe.fn = "download_single_pdf"
  /\ probe.calls >= 2
  /\ wk[1][1].pc = "scan"
  /\ settings[1].download_dir # None

\* C14 as stated: the second of two calls in sequence leaves the record with
\* status already_exists and the file as it was, whatever the first call did.
C14_SecondCallAlreadyExists ==
  second_call_returned =>
     /\ pdf_links[1][1].status = "already_exists"
     /\ disk[pdf_links[1][1].filename] = probe.before

\* C14 amended: it does so when the second call finds a file of the record's
\* name (written by the first call, left unfinished by it, or there before);
\* when the first call failed before it created the file, the second call
\* tries the download again and the status is not already_exists.
C14_SecondCallSkipsExistingFile ==
  second_call_returned =>
     IF probe.before.state # "absent"
     THEN /\ pdf_links[1][1].status = "already_exists"
          /\ disk[pdf_links[1][1].filename] = probe.before
     ELSE pdf_links[1][1].status \in {"downloaded", "download_failed"}

\* C14, its case: the first call wrote the file, the second call has returned
C14_Witness ==
  /\ second_call_returned
  /\ probe.before = [state |-> "complete", from |-> probe.url]
  /\ pdf_links[1][1].status = "already_exists"

\* a download that writes the file of that name is under way
being_written(filename) ==
  \E t \in Objs, i \in Slots :
     wk[t][i].pc = "dl_write" /\ wk[t][i].pdf_info.filename = filename

\* C15: a download that failed leaves its record with status download_failed
\* and an error, and leaves no file under the target name: a file that
\* exists and that no download is writing is a complete one.
C15_NoPartialFile ==
  /\ \A o \in Objs : \A k \in 1..Len(pdf_links[o]) :
        pdf_links[o][k].status = "download_failed" => pdf_links[o][k].error # None
  /\ \A f \in FileNames :
        (disk[f].state # "absent" /\ ~being_written(f)) => disk[f].state = "complete"

\* s without its leading and trailing blanks
trimmed(s) ==
  LET I == { i \in 1..Len(s) : s[i] # Blank }
  IN  IF I = {} THEN <<>>
      ELSE SubSeq(s, CHOOSE i \in I : \A j \in I : i <= j, CHOOSE i \in I : \A j \in I : j <= i)

has_http_prefix(s) == s # <<>> /\ Head(s) \in {"http://", "https://"}

\* C16: normalize_url(normalize_url(s)) = normalize_url(s); normalize_url(s)
\* is "https://" followed by the trimmed s when the trimmed s has no http://
\* or https:// prefix, and the trimmed s itself when it has one.
C16_NormalizeIdempotent ==
  (probe.fn = "normalize_url" /\ probe.done) =>
     /\ probe.again = probe.out
     /\ probe.out = IF has_http_prefix(trimmed(probe.url))
                    THEN trimmed(probe.url)
                    ELSE <<"https://">> \o trimmed(probe.url)

\* C16, its case: both calls were made for a seed that has blanks around it
\* and no prefix, and for one that has a prefix
C16_Witness ==
  /\ probe.fn = "normalize_url"
  /\ probe.done
  /\ probe.url \in { <<Blank, "example.com", Blank>>, <<Blank, "http://", "example.com">> }
  /\ probe.again = probe.out

\* the greatest depth of a page that was processed so far, 0 when none was
greatest_processed(o) ==
  LET D == { log[o].processed[k][2] : k \in 1..Len(log[o].processed) }
  IN  IF D = {} THEN 0 ELSE CHOOSE d \in D : \A e \in D : e <= d

\* C17: current_depth never exceeds the greatest depth of a page processed so
\* far: it is never the depth of a target that still waits in the queue.
C17_DepthIsProcessedDepth ==
  \A o \in Objs : crawl_status[o].current_depth <= greatest_processed(o)

\* C18: when a run has ended, urls_processed is the number of visited URLs
\* and pdfs_found is the number of records, whatever the interleaving of the
\* workers was.
C18_CountersMatchCollections ==
  \A t \in Objs :
     thr[t].pc = "done" =>
        /\ crawl_status[thr[t].self].urls_processed = Cardinality(visited_urls[thr[t].self])
        /\ crawl_status[thr[t].self].pdfs_found = Len(pdf_links[thr[t].self])

\* the scheduler of thread t is not inside the loop over a worker's links
links_taken(t) == thr[t].pc # "enqueue"

\* the links of worker w that fulfil the three conditions now (a link that is
\* not visited now was not visited when the scheduler looked at it)
due_links(t, w) ==
  { w.result[k] : k \in { j \in 1..Len(w.result) :
       /\ is_valid_url(w.result[j], thr[t].base_domain)
       /\ w.result[j] \notin visited_urls[thr[t].self]
       /\ w.depth + 1 <= max_depth[thr[t].self] } }

was_enqueued(o, url, depth) ==
  \E k \in 1..Len(log[o].enqueued) :
     log[o].enqueued[k][1] = url /\ log[o].enqueued[k][2] = depth

\* C19 as stated: once the scheduler is through with the links it collected,
\* every link that fulfils the three conditions, returned by a worker that
\* ended while the run was not stopped, has been enqueued one level deeper;
\* and no target in the queue lies beyond max_depth.
C19_LinksOfCompletedWorkers ==
  \A t \in Objs :
     /\ \A i \in Slots :
          (links_taken(t) /\ wk[t][i].pc = "done" /\ wk[t][i].collected /\ wk[t][i].early) =>
             \A l \in due_links(t, wk[t][i]) : was_enqueued(thr[t].self, l, wk[t][i].depth + 1)
     /\ thr[t].self # 0 =>
          \A k \in 1..Len(thr[t].urls_to_visit) :
             thr[t].urls_to_visit[k][2] <= max_depth[thr[t].self]

\* C19, with the moment that counts in the code: the links of a worker the
\* scheduler collects while is_running is true are enqueued one level deeper
\* when they fulfil the three conditions, and nothing else is ever enqueued:
\* every queued target was in scope, unvisited and within max_depth when it
\* was queued. Hence no queued target other than the seed itself (which is
\* queued at depth 0 whatever max_depth is) lies beyond max_depth, and every
\* visited URL other than the seed is in scope.
C19_LinksOfCollectedWorkers ==
  \A t \in Objs :
     LET o == thr[t].self
     IN  /\ \A i \in Slots :
              (links_taken(t) /\ wk[t][i].pc = "done" /\ wk[t][i].handed) =>
                 \A l \in due_links(t, wk[t][i]) : was_enqueued(o, l, wk[t][i].depth + 1)
         /\ o # 0 =>
              /\ \A k \in 1..Len(log[o].enqueued) :
                    /\ is_valid_url(log[o].enqueued[k][1], thr[t].base_domain)
                    /\ ~log[o].enqueued[k][3]
                    /\ log[o].enqueued[k][2] <= max_depth[o]
                    /\ \E j \in 1..Len(log[o].dispatched) :
                          log[o].dispatched[j][2] + 1 = log[o].enqueued[k][2]
              /\ \A k \in 1..Len(thr[t].urls_to_visit) :
                    \/ thr[t].urls_to_visit[k][2] <= max_depth[o]
                    \/ thr[t].urls_to_visit[k] = <<normalize_url(thr[t].website_url), 0>>
              /\ in_try(t) =>
                    \A u \in visited_urls[o] \ {normalize_url(thr[t].website_url)} :
                       is_valid_url(u, thr[t].base_domain)

\* C19, its case: a worker's links were taken while the run was running; one
\* of them was enqueued, another was left out because it was visited
C19_Witness ==
  \E t \in Objs : \E i \in Slots :
     /\ links_taken(t) /\ wk[t][i].pc = "done" /\ wk[t][i].handed
     /\ \E k \in 1..Len(wk[t][i].result) :
           was_enqueued(thr[t].self, wk[t][i].result[k], wk[t][i].depth + 1)
     /\ \E t2 \in Objs : \E i2 \in Slots :
           /\ wk[t2][i2].handed
           /\ \E k \in 1..Len(wk[t2][i2].result) :
                 /\ wk[t2][i2].result[k] \in visited_urls[thr[t2].self]
                 /\ is_valid_url(wk[t2][i2].result[k], thr[t2].base_domain)
                 /\ ~was_enqueued(thr[t2].self, wk[t2][i2].result[k], wk[t2][i2].depth + 1)

\* the workers of thread t whose call of crawl_page is under way
in_flight(t) == { i \in Slots : wk[t][i].pc \notin {"idle", "done"} }

\* the targets dispatched in batch b of object o
batch_of(o, b) == { j \in 1..Len(log[o].dispatched) : log[o].dispatched[j][3] = b }

\* C20: at most max_workers workers of a run are in flight; a batch holds at
\* most max_workers targets; the targets are dispatched in the order in which
\* they were queued (the seed, then the enqueued links, in batches that follow
\* one another); a target is dispatched in a batch later than the batch whose
\* worker returned it, and a batch is submitted only when every worker of the
\* batch before has returned and has been collected.
C20_BoundedFifoBatches ==
  \A t \in Objs :
     LET o == thr[t].self
     IN  /\ Cardinality(in_flight(t)) <= MaxWorkers
         /\ thr[t].pc = "submit" =>
               \A i \in Slots : \/ wk[t][i].pc = "idle"
                                \/ wk[t][i].pc = "done" /\ wk[t][i].collected
         /\ o # 0 =>
              /\ \A b \in 1..log[o].batches :
                    /\ Cardinality(batch_of(o, b)) <= MaxWorkers
                    /\ batch_of(o, b) # {}
              /\ Len(log[o].dispatched) <= Len(log[o].enqueued) + 1
              /\ \A j \in 1..Len(log[o].dispatched) :
                    /\ log[o].dispatched[j][3] \in 1..log[o].batches
                    /\ j > 1 => /\ log[o].dispatched[j - 1][3] <= log[o].dispatched[j][3]
                                /\ log[o].dispatched[j][1] = log[o].enqueued[j - 1][1]
                                /\ log[o].dispatched[j][2] = log[o].enqueued[j - 1][2]
                                /\ log[o].dispatched[j][3] > log[o].enqueued[j - 1][4]
                    /\ j = 1 => /\ log[o].dispatched[j][1] = normalize_url(thr[t].website_url)
                                /\ log[o].dispatched[j][2] = 0
              /\ \A k \in 1..Len(thr[t].urls_to_visit) :
                    Len(log[o].dispatched) + k - 1 \in 1..Len(log[o].enqueued) =>
                       /\ thr[t].urls_to_visit[k][1] = log[o].enqueued[Len(log[o].dispatched) + k - 1][1]
                       /\ thr[t].urls_to_visit[k][2] = log[o].enqueued[Len(log[o].dispatched) + k - 1][2]

\* C20, its case: a full batch of links the seed's worker returned was
\* dispatched, its workers are in flight, and a link queued behind them waits
C20_Witness ==
  \E t \in Objs :
     /\ thr[t].self # 0
     /\ log[thr[t].self].batches = 2
     /\ Cardinality(batch_of(thr[t].self, 2)) >= 2
     /\ Cardinality(in_flight(t)) >= 2
     /\ \A j \in batch_of(thr[t].self, 2) : log[thr[t].self].enqueued[j - 1][4] = 1

\* the crawl thread t was started
started(t) == thr[t].pc # "none"

\* the run of thread t has ended and its status says so
ended_not_running(t) ==
  thr[t].pc = "done" /\ ~crawl_status[thr[t].self].is_running

\* C21: under fair scheduling every run that was started ends - the queue
\* runs empty or the stop is seen - and from then on is_running is False for
\* good (no other start follows), also when pages link back to pages that
\* were visited.
C21_RunTerminates ==
  <>[](\A t \in Objs : started(t) => ended_not_running(t))

\* C21, its case: a run over pages that link back to the seed has ended with
\* every page visited, without a stop
C21_Witness ==
  \E t \in Objs :
     /\ ended_not_running(t)
     /\ stopped[thr[t].self] = "no"
     /\ thr[t].website_url = <<"site.test">>
     /\ Cardinality(visited_urls[thr[t].self]) >= 3

\* a call of download_pdfs has returned
download_pdfs_returned ==
  probe.fn = "download_pdfs" /\ probe.calls >= 1 /\ probe.pc = "idle"

\* C22: when download_pdfs returns, every record that was downloaded,
\* already_exists or download_failed when the call began has the status, the
\* local_path and the error it had, and the list holds the records it held.
C22_SettledRecordsKept ==
  download_pdfs_returned =>
     /\ Len(pdf_links[1]) = Len(probe.before)
     /\ \A k \in 1..Len(probe.before) :
           /\ pdf_links[1][k].url = probe.before[k].url
           /\ probe.before[k].status \in {"downloaded", "already_exists", "download_failed"} =>
                 /\ pdf_links[1][k].status = probe.before[k].status
                 /\ pdf_links[1][k].local_path = probe.before[k].local_path
                 /\ pdf_links[1][k].error = probe.before[k].error

\* stop_crawl() has returned for object o, the crawler of the last start
stop_returned(o) == stopped[o] # "no"

\* C23: once stop_crawl() has returned for the run of the last start,
\* is_running of that run is False and stays False, and the run dispatches
\* no batch - also when the stop came before the crawl thread had set up
\* its status.
C23_StopNeverLost ==
  [][\A o \in Objs :
       (stop_returned(o) /\ crawler = o /\ crawler' = o) =>
          /\ ~crawl_status'[o].is_running
          /\ log'[o].batches = log[o].batches]_vars

\* the in-scope pages at most d links from the seed
RECURSIVE within(_, _, _)
within(seed, base_domain, d) ==
  IF d = 0 THEN {seed}
  ELSE LET near == within(seed, base_domain, d - 1)
       IN  near \cup { l \in UNION { Range(get_page_links(p)) : p \in near } :
                         is_valid_url(l, base_domain) /\ Web(l).kind = "html" }

\* C24: when a run that no stop request reached has ended, every in-scope
\* page at most max_depth links from the seed is in the visited set.
C24_PagesWithinBoundVisited ==
  \A t \in Objs :
     (thr[t].pc = "done" /\ stopped[thr[t].self] = "no" /\ max_depth[thr[t].self] >= 0) =>
        within(normalize_url(thr[t].website_url), thr[t].base_domain,
               max_depth[thr[t].self]) \subseteq visited_urls[thr[t].self]

====
